---- MODULE Spec2Model ----
(***************************************************************************)
(* A model of lv2hostconfig: the two-stage configuration store of           *)
(* LV2HostConfig (raw formatted text in DataFmt, resolved float32 values in *)
(* Data), its ReadFile / Evaluate / WriteToFile operations, the value map   *)
(* and the function map the expressions are evaluated against.              *)
(*                                                                          *)
(* Go strings are TLA+ strings.  Go maps are functions whose DOMAIN is the  *)
(* key set.  float32 values are records (finite n, +Inf, NaN).  The texts   *)
(* a parameter may hold are drawn from the finite catalogue Texts; the      *)
(* parsers (strconv.ParseFloat, govaluate) are given by what they return on *)
(* each text of the catalogue.                                              *)
(***************************************************************************)
EXTENDS Integers, Sequences, FiniteSets, TLC

VARIABLES Plugins, ValueMap, FunctionMap, disk, op, err, call

vars == <<Plugins, ValueMap, FunctionMap, disk, op, err, call>>

----------------------------------------------------------------------------
(* Bounds of the model *)

\* the largest number of plugins a configuration file on disk lists
MaxPlugins == 2

----------------------------------------------------------------------------
(* float32 *)

F(n) == [k |-> "fin", n |-> n]
Inf == [k |-> "inf", n |-> 0]
NaN == [k |-> "nan", n |-> 0]

\* float addition, as far as the catalogue needs it
FAdd(a, b) ==
    IF a.k = "nan" \/ b.k = "nan" THEN NaN
    ELSE IF a.k = "inf" \/ b.k = "inf" THEN Inf
    ELSE F(a.n + b.n)

\* math.Abs
FAbs(a) == IF a.k = "fin" THEN F(IF a.n < 0 THEN -a.n ELSE a.n) ELSE a

----------------------------------------------------------------------------
(* interface{} values held by the value map and produced by govaluate *)

Num(f) == [t |-> "float", f |-> f, s |-> ""]
Str(s) == [t |-> "string", f |-> NaN, s |-> s]

----------------------------------------------------------------------------
(* The catalogue *)

URIs == {"urn:p1", "urn:p2"}
ParamNames == <<"gain", "knee">>
Params == {ParamNames[j] : j \in 1..Len(ParamNames)}
Texts == {"2", "inf", "x", "reference + 1", "abs(x)", "("}

\* the values a caller stores under "x" in the value map
CallerValues == {Num(F(1)), Str("2"), Str("zz")}

\* the value a caller overwrites a resolved parameter with
CallerData == F(7)

\* referenceLevel values of the documents the caller starts from (the
\* documents WriteToFile writes are read back as well)
References == {F(1)}

----------------------------------------------------------------------------
(* Errors *)

NoErr == [msg |-> "", value |-> "", cause |-> ""]

\* fmt.Errorf("<msg> '%v': %v", value, cause): what the message is built from
Errorf(msg, value, cause) == [msg |-> msg, value |-> value, cause |-> cause]

----------------------------------------------------------------------------
(* strconv.ParseFloat(s, 32) on the strings of the catalogue: the decimal  *)
(* literals and the spellings of infinity are floats, nothing else is.     *)

ParseFloat(s) ==
    CASE s \in {"2", "2.000000"} -> [ok |-> TRUE, f |-> F(2)]
      [] s \in {"1", "1.000000"} -> [ok |-> TRUE, f |-> F(1)]
      [] s \in {"7", "7.000000"} -> [ok |-> TRUE, f |-> F(7)]
      [] s \in {"inf", "+Inf"} -> [ok |-> TRUE, f |-> Inf]
      [] OTHER -> [ok |-> FALSE, f |-> NaN]

\* fmt.Sprintf("%f", v) of a float32
Sprintf_f(v) ==
    CASE v.k = "inf" -> "+Inf"
      [] v.k = "nan" -> "NaN"
      [] OTHER -> ToString(v.n) \o ".000000"

\* fmt.Sprintf("%v", v) of a float64 holding a float of the catalogue
Sprintf_v(v) ==
    CASE v.k = "inf" -> "+Inf"
      [] v.k = "nan" -> "NaN"
      [] OTHER -> ToString(v.n)

----------------------------------------------------------------------------
(* Numeric coercion *)

\* getFloat32: only a value convertible to float32 is accepted
getFloat32(val) ==
    IF val.t = "float" THEN [ok |-> TRUE, f |-> val.f, cause |-> ""]
    ELSE [ok |-> FALSE, f |-> NaN, cause |-> "Value is not a float"]

\* getFloat: a float converts, a string is parsed with ParseFloat
getFloat(val) ==
    IF val.t = "float" THEN [ok |-> TRUE, f |-> val.f, cause |-> ""]
    ELSE IF val.t = "string"
         THEN LET p == ParseFloat(val.s) IN
              IF p.ok THEN [ok |-> TRUE, f |-> p.f, cause |-> ""]
              ELSE [ok |-> FALSE, f |-> NaN, cause |-> "invalid syntax"]
         ELSE [ok |-> FALSE, f |-> NaN, cause |-> "Can't convert to float"]

----------------------------------------------------------------------------
(* The function map *)

\* the functions setUpLV2HostConfigFuncs installs (those the model calls)
BuiltinFuncs == [n \in {"abs", "scale"} |-> "builtin"]

\* a call of FunctionMap[name] with one argument
CallFunction(impl, name, arg) ==
    IF impl = "builtin" /\ name = "abs"
    THEN LET v == getFloat(arg) IN
         IF v.ok THEN [ok |-> TRUE, v |-> Num(FAbs(v.f)), cause |-> ""]
         ELSE [ok |-> FALSE, v |-> Num(NaN),
               cause |-> "Value '" \o (IF arg.t = "string" THEN arg.s ELSE Sprintf_v(arg.f))
                         \o "' was not a float"]
    ELSE \* a function registered by the caller, which rejects every call
         [ok |-> FALSE, v |-> Num(NaN), cause |-> "custom function failed"]

----------------------------------------------------------------------------
(* FunctionMap["scale"] *)

\* the largest magnitude of the numbers passed to scale
MaxArg == 2

RECURSIVE GCD(_, _)
GCD(a, b) == IF b = 0 THEN (IF a < 0 THEN -a ELSE a) ELSE GCD(b, a % b)

\* the finite float32 p/q, q # 0, in lowest terms with a positive denominator
Frac(p, q) ==
    LET g == GCD(IF p < 0 THEN -p ELSE p, IF q < 0 THEN -q ELSE q)
        sgn == IF q < 0 THEN -1 ELSE 1
    IN [k |-> "fin", n |-> (sgn * p) \div g, d |-> (sgn * q) \div g]

\* "%v" of an argument in an error message
ArgText(arg) == IF arg.t = "string" THEN arg.s ELSE Sprintf_v(arg.f)

\* a whole number times a float, and a float plus a whole number
FMulInt(k, f) == Frac(k * f.n, f.d)
FAddInt(f, k) == Frac(f.n + k * f.d, f.d)

RangeInvalid(lo, hi) ==
    [ok |-> FALSE, v |-> Num(NaN),
     cause |-> "Range '" \o ToString(lo) \o "-" \o ToString(hi) \o "' is invalid"]

NotWithinRange(val, lo, hi) ==
    [ok |-> FALSE, v |-> Num(NaN),
     cause |-> "Value '" \o ToString(val) \o "' is not within range '"
               \o ToString(lo) \o "-" \o ToString(hi) \o "'"]

\* the rescaling, step by step: oldScaledVal := (val - oldMin) / oldScale,
\* newScaledVal := newScale * oldScaledVal, newVal := newScaledVal + newMin
Rescale(val, oldMin, oldScale, newMin, newScale) ==
    [ok |-> TRUE,
     v |-> Num(FAddInt(FMulInt(newScale, Frac(val - oldMin, oldScale)), newMin)),
     cause |-> ""]

\* scale's body without the check of the new range
scaleFloats_NoNewRangeCheck(val, oldMin, oldMax, newMin, newMax) ==
    IF oldMin >= oldMax THEN RangeInvalid(oldMin, oldMax)
    ELSE IF val < oldMin \/ val > oldMax THEN NotWithinRange(val, oldMin, oldMax)
    ELSE Rescale(val, oldMin, oldMax - oldMin, newMin, newMax - newMin)

\* scale's body once its five arguments are floats: the three range checks,
\* then the rescaling
scaleFloats(val, oldMin, oldMax, newMin, newMax) ==
    IF oldMin >= oldMax THEN RangeInvalid(oldMin, oldMax)
    ELSE IF newMin >= newMax THEN RangeInvalid(newMin, newMax)
    ELSE IF val < oldMin \/ val > oldMax THEN NotWithinRange(val, oldMin, oldMax)
    ELSE Rescale(val, oldMin, oldMax - oldMin, newMin, newMax - newMin)

\* the first argument getFloat refuses, 0 when it accepts them all
FirstNotFloat(args) ==
    IF \A i \in 1..Len(args) : getFloat(args[i]).ok THEN 0
    ELSE CHOOSE i \in 1..Len(args) :
            /\ ~getFloat(args[i]).ok
            /\ \A j \in 1..(i - 1) : getFloat(args[j]).ok

\* FunctionMap["scale"](args...): the arity, the coercion of each argument in
\* turn, then the checks and the rescaling
scale(args) ==
    IF Len(args) # 5
    THEN [ok |-> FALSE, v |-> Num(NaN), cause |-> "Function 'scale' expects exactly 5 arguments"]
    ELSE IF FirstNotFloat(args) # 0
    THEN [ok |-> FALSE, v |-> Num(NaN),
          cause |-> "Value '" \o ArgText(args[FirstNotFloat(args)]) \o "' was not a float"]
    ELSE scaleFloats(getFloat(args[1]).f.n, getFloat(args[2]).f.n, getFloat(args[3]).f.n,
                     getFloat(args[4]).f.n, getFloat(args[5]).f.n)

----------------------------------------------------------------------------
(* govaluate *)

Ast(k, name, arg, n) == [k |-> k, name |-> name, arg |-> arg, n |-> n]

\* the token structure of each text of the catalogue
Tokens(text) ==
    CASE text = "2" -> Ast("num", "", "", 2)
      [] text = "inf" -> Ast("var", "inf", "", 0)
      [] text = "x" -> Ast("var", "x", "", 0)
      [] text = "reference + 1" -> Ast("add", "", "reference", 1)
      [] text = "abs(x)" -> Ast("call", "abs", "x", 0)
      [] OTHER -> Ast("bad", "", "", 0)

\* govaluate.NewEvaluableExpressionWithFunctions(value, c.FunctionMap): a name
\* followed by a parenthesis is a call only of a function the map holds
NewEvaluableExpressionWithFunctions(value, fm) ==
    LET a == Tokens(value) IN
    CASE a.k = "bad" -> [ok |-> FALSE, ast |-> a, cause |-> "Unbalanced parenthesis"]
      [] a.k = "call" /\ a.name \notin DOMAIN fm ->
            [ok |-> FALSE, ast |-> a,
             cause |-> "Cannot transition token types from VARIABLE to CLAUSE"]
      [] OTHER -> [ok |-> TRUE, ast |-> a, cause |-> ""]

\* the value of a variable of the expression
Parameter(name, vm) ==
    IF name \in DOMAIN vm THEN [ok |-> TRUE, v |-> vm[name], cause |-> ""]
    ELSE [ok |-> FALSE, v |-> Num(NaN), cause |-> "No parameter '" \o name \o "' found."]

\* expr.Evaluate(c.ValueMap)
ExprEvaluate(a, vm, fm) ==
    CASE a.k = "num" -> [ok |-> TRUE, v |-> Num(F(a.n)), cause |-> ""]
      [] a.k = "var" -> Parameter(a.name, vm)
      [] a.k = "add" ->
            LET l == Parameter(a.arg, vm) IN
            IF ~l.ok THEN l
            ELSE IF l.v.t = "float"
                 THEN [ok |-> TRUE, v |-> Num(FAdd(l.v.f, F(a.n))), cause |-> ""]
                 \* '+' with a string operand concatenates
                 ELSE [ok |-> TRUE, v |-> Str(l.v.s \o ToString(a.n)), cause |-> ""]
      [] OTHER ->
            LET x == Parameter(a.arg, vm) IN
            IF ~x.ok THEN x ELSE CallFunction(fm[a.name], a.name, x.v)

----------------------------------------------------------------------------
(* Plugin configurations and documents *)

EmptyMap == [k \in {} |-> ""]

\* NewLV2PluginConfig, with the fields the callers then set
LV2PluginConfig(uri, data, fmt) == [PluginURI |-> uri, Data |-> data, DataFmt |-> fmt]

\* the plugins of a document that hold k parameters; parameter names are
\* interchangeable, so a plugin with one parameter names it "gain"
YamlPluginsOfSize(k) ==
    [pluginUri : URIs, parameters : [{ParamNames[j] : j \in 1..k} -> Texts]]

\* the lists of n plugins that hold at most `budget` parameters together
RECURSIVE YamlPluginLists(_, _)
YamlPluginLists(n, budget) ==
    IF n = 0 THEN {<<>>}
    ELSE UNION {{<<p>> \o rest : p \in YamlPluginsOfSize(k),
                                 rest \in YamlPluginLists(n - 1, budget - k)} :
                k \in 0..budget}

\* the plugin lists of the documents: at most MaxPlugins plugins, which hold
\* together no more parameters than there are parameter names
YamlPlugins == UNION {YamlPluginLists(n, Cardinality(Params)) : n \in 0..MaxPlugins}

\* the YAML documents a file may hold: the keys are those of the struct tags
Documents == [valid : {TRUE}, referenceLevel : References, plugins : YamlPlugins]

\* a file yaml.Unmarshal rejects
Malformed == [valid |-> FALSE, referenceLevel |-> F(0), plugins |-> <<>>]

\* newLV2HostRaw
newLV2HostRaw == [Reference |-> F(0), Plugins |-> <<>>]

\* readConfig: the file unmarshalled into lv2HostRaw, or an error
readConfig(file) ==
    IF ~file.valid
    THEN [err |-> Errorf("Failed to parse config", "", "yaml"), raw |-> newLV2HostRaw]
    ELSE [err |-> NoErr,
          raw |-> [Reference |-> file.referenceLevel,
                   Plugins |-> [i \in 1..Len(file.plugins) |->
                                  [URI |-> file.plugins[i].pluginUri,
                                   Data |-> file.plugins[i].parameters]]]]

\* writeConfig: lv2HostRaw marshalled into the file
writeConfig(hostRaw) ==
    [valid |-> TRUE,
     referenceLevel |-> hostRaw.Reference,
     plugins |-> [i \in 1..Len(hostRaw.Plugins) |->
                    [pluginUri |-> hostRaw.Plugins[i].URI,
                     parameters |-> hostRaw.Plugins[i].Data]]]

----------------------------------------------------------------------------
(* ReadFile *)

\* the plugin list ReadFile builds from the raw document
ReadFilePlugins(raw) ==
    [i \in 1..Len(raw.Plugins) |->
        LV2PluginConfig(raw.Plugins[i].URI, EmptyMap,
                        [param \in DOMAIN raw.Plugins[i].Data |-> raw.Plugins[i].Data[param]])]

\* c.ValueMap[name] = val
MapSet(m, name, val) ==
    [k \in DOMAIN m \cup {name} |-> IF k = name THEN val ELSE m[k]]

\* ReadFile appending to c.Plugins instead of replacing it
ReadFileStore_Append(plugins, vm, file) ==
    LET r == readConfig(file) IN
    IF r.err # NoErr
    THEN [err |-> r.err, Plugins |-> plugins, ValueMap |-> vm]
    ELSE [err |-> NoErr,
          Plugins |-> plugins \o ReadFilePlugins(r.raw),
          ValueMap |-> MapSet(vm, "reference", Num(r.raw.Reference))]

\* ReadFile on the store (plugins, vm) and the file: the error and the store after
ReadFileStore(plugins, vm, file) ==
    LET r == readConfig(file) IN
    IF r.err # NoErr
    THEN [err |-> r.err, Plugins |-> plugins, ValueMap |-> vm]
    ELSE [err |-> NoErr,
          Plugins |-> ReadFilePlugins(r.raw),
          ValueMap |-> MapSet(vm, "reference", Num(r.raw.Reference))]

----------------------------------------------------------------------------
(* Evaluate *)

\* the inner loop's body without its literal branch: every text goes to govaluate
ResolveValue_NoLiteralBranch(value, vm, fm) ==
    LET expr == NewEvaluableExpressionWithFunctions(value, fm) IN
    IF ~expr.ok
    THEN [err |-> Errorf("Error parsing expression", value, expr.cause), val |-> NaN]
    ELSE LET evalResult == ExprEvaluate(expr.ast, vm, fm) IN
         IF ~evalResult.ok
         THEN [err |-> Errorf("Error evaluating expression", value, evalResult.cause),
               val |-> NaN]
         ELSE LET result32 == getFloat32(evalResult.v) IN
              IF ~result32.ok
              THEN [err |-> Errorf("Error parsing expression result", value, result32.cause),
                    val |-> NaN]
              ELSE [err |-> NoErr, val |-> result32.f]

\* the body of Evaluate's inner loop for one (param, value): literal first,
\* then the expression, then the coercion of its result
ResolveValue(value, vm, fm) ==
    LET lit == ParseFloat(value) IN
    IF lit.ok THEN [err |-> NoErr, val |-> lit.f]
    ELSE LET expr == NewEvaluableExpressionWithFunctions(value, fm) IN
         IF ~expr.ok
         THEN [err |-> Errorf("Error parsing expression", value, expr.cause), val |-> NaN]
         ELSE LET evalResult == ExprEvaluate(expr.ast, vm, fm) IN
              IF ~evalResult.ok
              THEN [err |-> Errorf("Error evaluating expression", value, evalResult.cause),
                    val |-> NaN]
              ELSE LET result32 == getFloat32(evalResult.v) IN
                   IF ~result32.ok
                   THEN [err |-> Errorf("Error parsing expression result", value,
                                        result32.cause),
                         val |-> NaN]
                   ELSE [err |-> NoErr, val |-> result32.f]

Min(S) == CHOOSE m \in S : \A o \in S : m <= o

\* the orders in which range may walk a map with key set S
Perms(S) == {p \in [1..Cardinality(S) -> S] : \A k \in S : \E j \in DOMAIN p : p[j] = k}

\* one order for each plugin's DataFmt
RECURSIVE Orders(_)
Orders(plugins) ==
    IF plugins = <<>> THEN {<<>>}
    ELSE {<<p>> \o rest : p \in Perms(DOMAIN Head(plugins).DataFmt),
                          rest \in Orders(Tail(plugins))}

\* the inner loop leaving the literal branch before pc.Data[param] is set
EvaluatePlugin_SkipLiteralData(pd, order, vm, fm) ==
    LET res == [param \in DOMAIN pd.DataFmt |-> ResolveValue(pd.DataFmt[param], vm, fm)]
        bad == {j \in 1..Len(order) : res[order[j]].err # NoErr}
        done == IF bad = {} THEN DOMAIN pd.DataFmt ELSE {order[h] : h \in 1..(Min(bad) - 1)}
    IN
    [err |-> IF bad = {} THEN NoErr ELSE res[order[Min(bad)]].err,
     pc |-> LV2PluginConfig(pd.PluginURI,
                            [param \in {q \in done : ~ParseFloat(pd.DataFmt[q]).ok} |->
                                res[param].val],
                            [param \in done |-> pd.DataFmt[param]])]

\* the inner loop recording "" as the format of a literal, as ParseFile did
EvaluatePlugin_ClearLiteralFmt(pd, order, vm, fm) ==
    LET res == [param \in DOMAIN pd.DataFmt |-> ResolveValue(pd.DataFmt[param], vm, fm)]
        bad == {j \in 1..Len(order) : res[order[j]].err # NoErr}
        done == IF bad = {} THEN DOMAIN pd.DataFmt ELSE {order[h] : h \in 1..(Min(bad) - 1)}
    IN
    [err |-> IF bad = {} THEN NoErr ELSE res[order[Min(bad)]].err,
     pc |-> LV2PluginConfig(pd.PluginURI,
                            [param \in done |-> res[param].val],
                            [param \in done |->
                                IF ParseFloat(pd.DataFmt[param]).ok THEN ""
                                ELSE pd.DataFmt[param]])]

\* one pass of the inner loop over pd.DataFmt in the order `order`: the error
\* of the first parameter that fails, and pc as it stands when the loop ends
EvaluatePlugin(pd, order, vm, fm) ==
    LET res == [param \in DOMAIN pd.DataFmt |-> ResolveValue(pd.DataFmt[param], vm, fm)]
        bad == {j \in 1..Len(order) : res[order[j]].err # NoErr}
    IN
    IF bad = {}
    THEN [err |-> NoErr,
          pc |-> LV2PluginConfig(pd.PluginURI,
                                 [param \in DOMAIN pd.DataFmt |-> res[param].val],
                                 pd.DataFmt)]
    ELSE LET j == Min(bad) IN
         [err |-> res[order[j]].err,
          pc |-> LV2PluginConfig(pd.PluginURI,
                                 [param \in {order[h] : h \in 1..(j-1)} |-> res[param].val],
                                 [param \in {order[h] : h \in 1..j} |-> pd.DataFmt[param]])]

\* Evaluate writing each evaluated plugin into c.Plugins as it goes
EvaluateStore_InPlace(plugins, vm, fm, orders) ==
    LET res == [i \in 1..Len(plugins) |-> EvaluatePlugin(plugins[i], orders[i], vm, fm)]
        bad == {i \in 1..Len(plugins) : res[i].err # NoErr}
    IN IF bad = {}
       THEN [err |-> NoErr, Plugins |-> [i \in 1..Len(plugins) |-> res[i].pc]]
       ELSE [err |-> res[Min(bad)].err,
             Plugins |-> [i \in 1..Len(plugins) |->
                            IF i < Min(bad) THEN res[i].pc ELSE plugins[i]]]

\* Evaluate going on after an error and returning the last one it met
EvaluateStore_LastError(plugins, vm, fm, orders) ==
    LET res == [i \in 1..Len(plugins) |-> EvaluatePlugin(plugins[i], orders[i], vm, fm)]
        bad == {i \in 1..Len(plugins) : res[i].err # NoErr}
    IN IF bad = {}
       THEN [err |-> NoErr, Plugins |-> [i \in 1..Len(plugins) |-> res[i].pc]]
       ELSE [err |-> res[CHOOSE m \in bad : \A o \in bad : o <= m].err, Plugins |-> plugins]

\* Evaluate on c.Plugins = plugins: the error returned and c.Plugins after
EvaluateStore(plugins, vm, fm, orders) ==
    LET res == [i \in 1..Len(plugins) |-> EvaluatePlugin(plugins[i], orders[i], vm, fm)]
        bad == {i \in 1..Len(plugins) : res[i].err # NoErr}
    IN IF bad = {}
       THEN [err |-> NoErr, Plugins |-> [i \in 1..Len(plugins) |-> res[i].pc]]
       ELSE [err |-> res[Min(bad)].err, Plugins |-> plugins]

----------------------------------------------------------------------------
(* WriteToFile *)

\* WriteToFile printing the resolved value of a literal parameter, as the
\* README describes and the earlier WriteToFile did
WriteToFileRaw_FromData(plugins) ==
    [Reference |-> newLV2HostRaw.Reference,
     Plugins |-> [i \in 1..Len(plugins) |->
                    [URI |-> plugins[i].PluginURI,
                     Data |-> [k \in DOMAIN plugins[i].DataFmt |->
                                 IF k \in DOMAIN plugins[i].Data
                                    /\ ParseFloat(plugins[i].DataFmt[k]).ok
                                 THEN Sprintf_f(plugins[i].Data[k])
                                 ELSE plugins[i].DataFmt[k]]]]]

\* the raw document WriteToFile builds from c.Plugins
WriteToFileRaw(plugins) ==
    [Reference |-> newLV2HostRaw.Reference,
     Plugins |-> [i \in 1..Len(plugins) |->
                    [URI |-> plugins[i].PluginURI,
                     Data |-> [k \in DOMAIN plugins[i].DataFmt |-> plugins[i].DataFmt[k]]]]]

----------------------------------------------------------------------------
(* The state machine *)

\* no function of the function map has been called directly
NoCall == [args |-> <<>>, done |-> FALSE, ret |-> [ok |-> TRUE, v |-> Num(NaN), cause |-> ""]]

\* NewLV2HostConfig, and the file the caller will read
Init ==
    /\ Plugins = <<>>
    /\ ValueMap = EmptyMap
    /\ FunctionMap = BuiltinFuncs
    /\ disk \in Documents \cup {Malformed}
    /\ op = "NewLV2HostConfig"
    /\ err = NoErr
    /\ call = NoCall

ReadFile ==
    LET r == ReadFileStore(Plugins, ValueMap, disk) IN
    /\ Plugins' = r.Plugins
    /\ ValueMap' = r.ValueMap
    /\ err' = r.err
    /\ op' = "ReadFile"
    /\ UNCHANGED <<FunctionMap, disk, call>>

Evaluate ==
    \E orders \in Orders(Plugins) :
        LET r == EvaluateStore(Plugins, ValueMap, FunctionMap, orders) IN
        /\ Plugins' = r.Plugins
        /\ err' = r.err
        /\ op' = "Evaluate"
        /\ UNCHANGED <<ValueMap, FunctionMap, disk, call>>

WriteToFile ==
    /\ disk' = writeConfig(WriteToFileRaw(Plugins))
    /\ err' = NoErr
    /\ op' = "WriteToFile"
    /\ UNCHANGED <<Plugins, ValueMap, FunctionMap, call>>

\* the caller stores a value in the exported ValueMap
SetValue ==
    \E v \in CallerValues :
        /\ ValueMap' = MapSet(ValueMap, "x", v)
        /\ op' = "SetValue"
        /\ err' = NoErr
        /\ UNCHANGED <<Plugins, FunctionMap, disk, call>>

\* the caller overwrites a resolved value in the exported Data of a plugin
SetData ==
    \E i \in 1..Len(Plugins) : \E k \in DOMAIN Plugins[i].Data :
        /\ Plugins' = [Plugins EXCEPT ![i].Data[k] = CallerData]
        /\ op' = "SetData"
        /\ err' = NoErr
        /\ UNCHANGED <<ValueMap, FunctionMap, disk, call>>

Next ==
    \/ ReadFile
    \/ Evaluate
    \/ WriteToFile
    \/ SetValue
    \/ SetData

Spec == Init /\ [][Next]_vars

----------------------------------------------------------------------------
(* Vocabulary of the properties *)

\* the (plugin, parameter) pairs of a store
Entries(plugins) ==
    {e \in (1..Len(plugins)) \X Params : e[2] \in DOMAIN plugins[e[1]].DataFmt}

\* what resolving parameter e of the store yields in the current environment
Resolved(e) == ResolveValue(Plugins[e[1]].DataFmt[e[2]], ValueMap, FunctionMap)

\* same plugins in the same order with the same identifiers and formatted maps
SameFormatted(ps, qs) ==
    /\ Len(ps) = Len(qs)
    /\ \A i \in 1..Len(ps) :
        /\ ps[i].PluginURI = qs[i].PluginURI
        /\ DOMAIN ps[i].DataFmt = DOMAIN qs[i].DataFmt
        /\ \A k \in DOMAIN ps[i].DataFmt : ps[i].DataFmt[k] = qs[i].DataFmt[k]

\* the store with every resolved map emptied
WithoutData(ps) == [i \in 1..Len(ps) |-> [ps[i] EXCEPT !.Data = EmptyMap]]

EvaluateFailed == op = "Evaluate" /\ err # NoErr
EvaluateSucceeded == op = "Evaluate" /\ err = NoErr

----------------------------------------------------------------------------
(* C1: Evaluate is all-or-nothing.  On an Evaluate step, if some formatted  *)
(* parameter of some plugin fails to resolve, Evaluate returns an error;    *)
(* whenever it returns an error, c.Plugins is exactly what it was before    *)
(* the call; and when every parameter resolves it returns no error.         *)
EvaluateAtomic ==
    [][op' = "Evaluate" =>
          LET failing == \E e \in Entries(Plugins) : Resolved(e).err # NoErr IN
          /\ failing => err' # NoErr
          /\ err' # NoErr => Plugins' = Plugins
          /\ ~failing => err' = NoErr /\ SameFormatted(Plugins', Plugins)
      ]_vars

\* a failed Evaluate whose first plugin resolves and is still unresolved after
EvaluateAtomicWitness ==
    /\ EvaluateFailed
    /\ Len(Plugins) = 2
    /\ DOMAIN Plugins[1].DataFmt # {}
    /\ \A k \in DOMAIN Plugins[1].DataFmt : Resolved(<<1, k>>).err = NoErr
    /\ Plugins[1].Data = EmptyMap

----------------------------------------------------------------------------
(* C2: deterministic numeric round trip.  For a store on which Evaluate has *)
(* just succeeded, WriteToFile, then ReadFile of the written file, then     *)
(* Evaluate succeeds and resolves every parameter of every plugin to the    *)
(* value it had before the write.                                           *)
NumericRoundTrip ==
    EvaluateSucceeded =>
        LET file == writeConfig(WriteToFileRaw(Plugins))
            load == ReadFileStore(Plugins, ValueMap, file)
        IN \A orders \in Orders(load.Plugins) :
              LET again == EvaluateStore(load.Plugins, load.ValueMap, FunctionMap, orders) IN
              /\ again.err = NoErr
              /\ Len(again.Plugins) = Len(Plugins)
              /\ \A i \in 1..Len(Plugins) : again.Plugins[i].Data = Plugins[i].Data

----------------------------------------------------------------------------
----------------------------------------------------------------------------
----------------------------------------------------------------------------
(* C5: literal precedence.  After a successful Evaluate every parameter     *)
(* whose text is a float literal ("2", "inf") is resolved to the literal's  *)
(* value, whatever the value map holds; and a failed Evaluate never reports *)
(* a text that is a float literal.                                          *)
LiteralValue(text) == IF text = "2" THEN F(2) ELSE Inf

LiteralPrecedence ==
    /\ EvaluateSucceeded =>
          \A e \in Entries(Plugins) :
              Plugins[e[1]].DataFmt[e[2]] \in {"2", "inf"} =>
                  /\ e[2] \in DOMAIN Plugins[e[1]].Data
                  /\ Plugins[e[1]].Data[e[2]] = LiteralValue(Plugins[e[1]].DataFmt[e[2]])
    /\ EvaluateFailed => err.value \notin {"2", "inf"}

\* a successful Evaluate of "inf", which is also the name of a variable the
\* value map does not hold, beside an expression over a variable it holds
LiteralPrecedenceWitness ==
    /\ EvaluateSucceeded
    /\ "x" \in DOMAIN ValueMap
    /\ \E e \in Entries(Plugins) :
          Plugins[e[1]].DataFmt[e[2]] = "inf" /\ Plugins[e[1]].Data[e[2]] = Inf
    /\ \E e \in Entries(Plugins) : Plugins[e[1]].DataFmt[e[2]] = "abs(x)"

----------------------------------------------------------------------------
(* C6: key-set invariant.  In every state the key set of each plugin's Data *)
(* is a subset of the key set of its DataFmt, and right after a successful  *)
(* Evaluate the two are equal for every plugin.                             *)
KeySetInvariant ==
    /\ \A i \in 1..Len(Plugins) : DOMAIN Plugins[i].Data \subseteq DOMAIN Plugins[i].DataFmt
    /\ EvaluateSucceeded =>
          \A i \in 1..Len(Plugins) : DOMAIN Plugins[i].Data = DOMAIN Plugins[i].DataFmt

\* a successful Evaluate of a plugin without parameters beside one with a
\* literal and an expression
KeySetInvariantWitness ==
    /\ EvaluateSucceeded
    /\ \E i \in 1..Len(Plugins) : DOMAIN Plugins[i].DataFmt = {}
    /\ \E i \in 1..Len(Plugins) :
          /\ DOMAIN Plugins[i].Data = Params
          /\ \E k \in Params : ParseFloat(Plugins[i].DataFmt[k]).ok
          /\ \E k \in Params : ~ParseFloat(Plugins[i].DataFmt[k]).ok

----------------------------------------------------------------------------
(* C7: ReadFile replaces the plugins wholesale and evaluates nothing: right *)
(* after a successful ReadFile the store holds exactly the plugins of the   *)
(* file, in the file's order, each with the file's parameters as DataFmt    *)
(* and an empty Data.                                                       *)
LoadReplaces ==
    (op = "ReadFile" /\ err = NoErr) =>
        /\ disk.valid
        /\ Len(Plugins) = Len(disk.plugins)
        /\ \A i \in 1..Len(Plugins) :
              /\ Plugins[i].PluginURI = disk.plugins[i].pluginUri
              /\ Plugins[i].DataFmt = disk.plugins[i].parameters
              /\ Plugins[i].Data = EmptyMap

\* a successful ReadFile of a file WriteToFile wrote from a loaded store
LoadReplacesWitness ==
    /\ op = "ReadFile"
    /\ err = NoErr
    /\ disk.referenceLevel = newLV2HostRaw.Reference
    /\ Len(Plugins) = 2
    /\ Entries(Plugins) # {}

----------------------------------------------------------------------------
(* C8: error identification.                                                *)

\* what an error's message is put together from
ErrorParts(e) == {e.msg, e.value, e.cause}

\* the parameters whose failure Evaluate may meet first: they fail to
\* resolve and every parameter of every earlier plugin resolves
FirstFailures ==
    {e \in Entries(Plugins) :
        /\ Resolved(e).err # NoErr
        /\ \A d \in Entries(Plugins) : d[1] < e[1] => Resolved(d).err = NoErr}

\* C8 as stated: the error of a failed Evaluate is the first one met and
\* names the plugin's identifier, the parameter's name and its formatted text
ErrorNamesEntityAndParameter ==
    EvaluateFailed =>
        \E e \in FirstFailures :
            /\ err = Resolved(e).err
            /\ Plugins[e[1]].PluginURI \in ErrorParts(err)
            /\ e[2] \in ErrorParts(err)
            /\ Plugins[e[1]].DataFmt[e[2]] \in ErrorParts(err)

\* C8 as amended: the error of a failed Evaluate is the first one met in the
\* pass and carries that parameter's formatted text and the underlying cause
ErrorNamesFormattedText ==
    EvaluateFailed =>
        \E e \in FirstFailures :
            /\ err = Resolved(e).err
            /\ err.value = Plugins[e[1]].DataFmt[e[2]]
            /\ err.cause # ""

\* a failed Evaluate of two plugins that fail on different texts
ErrorNamesFormattedTextWitness ==
    /\ EvaluateFailed
    /\ Len(Plugins) = 2
    /\ \E k \in DOMAIN Plugins[1].DataFmt, h \in DOMAIN Plugins[2].DataFmt :
          /\ Resolved(<<1, k>>).err # NoErr
          /\ Resolved(<<2, h>>).err # NoErr
          /\ Plugins[1].DataFmt[k] # Plugins[2].DataFmt[h]
          /\ err.value = Plugins[1].DataFmt[k]

----------------------------------------------------------------------------
(* C9: Evaluate is idempotent.  Right after a successful Evaluate, another  *)
(* Evaluate (whatever order its loops take) succeeds and leaves every       *)
(* plugin, its identifier, formatted map and resolved map, as it is.        *)
EvaluateIdempotent ==
    EvaluateSucceeded =>
        \A orders \in Orders(Plugins) :
            LET again == EvaluateStore(Plugins, ValueMap, FunctionMap, orders) IN
            /\ again.err = NoErr
            /\ again.Plugins = Plugins

\* a successful Evaluate that resolved a literal and an expression
EvaluateIdempotentWitness ==
    /\ EvaluateSucceeded
    /\ \E e \in Entries(Plugins) :
          Plugins[e[1]].DataFmt[e[2]] = "x" /\ Plugins[e[1]].Data[e[2]] = F(1)
    /\ \E e \in Entries(Plugins) :
          Plugins[e[1]].DataFmt[e[2]] = "2" /\ Plugins[e[1]].Data[e[2]] = F(2)

----------------------------------------------------------------------------
(* C10: result coercion follows the numeric-coercion rule of getFloat.      *)

\* the value govaluate computes for parameter e
ExprResult(e) ==
    ExprEvaluate(NewEvaluableExpressionWithFunctions(Plugins[e[1]].DataFmt[e[2]],
                                                     FunctionMap).ast,
                 ValueMap, FunctionMap)

\* the parameters that are expressions govaluate evaluates successfully
Evaluated ==
    {e \in Entries(Plugins) :
        /\ ~ParseFloat(Plugins[e[1]].DataFmt[e[2]]).ok
        /\ NewEvaluableExpressionWithFunctions(Plugins[e[1]].DataFmt[e[2]], FunctionMap).ok
        /\ ExprResult(e).ok}

\* C10 as stated: an Evaluate fails over the result of an expression exactly
\* when getFloat rejects that result, and a successful Evaluate resolves
\* every expression to what getFloat makes of its result
ResultCoercionRule ==
    /\ EvaluateFailed /\ err.msg = "Error parsing expression result" =>
          \E e \in Evaluated :
              /\ err.value = Plugins[e[1]].DataFmt[e[2]]
              /\ ~getFloat(ExprResult(e).v).ok
    /\ EvaluateSucceeded =>
          \A e \in Evaluated :
              /\ getFloat(ExprResult(e).v).ok
              /\ Plugins[e[1]].Data[e[2]] = getFloat(ExprResult(e).v).f

----------------------------------------------------------------------------
(* Direct calls of FunctionMap["scale"]: the caller draws five arguments,   *)
(* then calls the function once.                                            *)

\* what a caller passes to scale: numbers, numeric text, other text
ArgValues == {Num(F(n)) : n \in (-MaxArg)..MaxArg} \cup {Str("2"), Str("zz")}

\* val, oldMin, oldMax, newMin, newMax
ScaleArgs == [1..5 -> ArgValues]

ScaleInit ==
    /\ Plugins = <<>>
    /\ ValueMap = EmptyMap
    /\ FunctionMap = BuiltinFuncs
    /\ disk = Malformed
    /\ op = "NewLV2HostConfig"
    /\ err = NoErr
    /\ call \in {[NoCall EXCEPT !.args = a] : a \in ScaleArgs}

\* c.FunctionMap["scale"](args...)
CallScale ==
    /\ ~call.done
    /\ "scale" \in DOMAIN FunctionMap
    /\ call' = [call EXCEPT !.done = TRUE, !.ret = scale(call.args)]
    /\ op' = "scale"
    /\ UNCHANGED <<Plugins, ValueMap, FunctionMap, disk, err>>

ScaleNext == CallScale

ScaleSpec == ScaleInit /\ [][ScaleNext]_vars

----------------------------------------------------------------------------
(* C11: scale called with five arguments that are numbers or numeric text   *)
(* fails with a range error exactly when oldMin >= oldMax, or newMin >=     *)
(* newMax, or val < oldMin, or val > oldMax; in every other case it returns *)
(* newMin + (newMax-newMin)*(val-oldMin)/(oldMax-oldMin), which lies in     *)
(* [newMin, newMax], is newMin at val = oldMin and newMax at val = oldMax.   *)

\* the number an argument stands for: a float, or the text "2"
ArgNumber(i) == IF call.args[i].t = "float" THEN call.args[i].f.n ELSE 2

ArgsCoercible == \A i \in DOMAIN call.args : call.args[i] # Str("zz")

\* the messages of scale's three range checks
RangeCauses(val, oldMin, oldMax, newMin, newMax) ==
    {"Range '" \o ToString(oldMin) \o "-" \o ToString(oldMax) \o "' is invalid",
     "Range '" \o ToString(newMin) \o "-" \o ToString(newMax) \o "' is invalid",
     "Value '" \o ToString(val) \o "' is not within range '"
         \o ToString(oldMin) \o "-" \o ToString(oldMax) \o "'"}

====
